---- MODULE Spec2Model ----
(***************************************************************************)
(* Model of AttrSigInfo::new (near-bindgen-core, info_extractor/           *)
(* attr_sig_info.rs): the analysis of one method declaration (attribute    *)
(* list + signature) into an AttrSigInfo, or an error.                     *)
(*                                                                         *)
(* The declaration is chosen in Init; the actions walk through the body of *)
(* AttrSigInfo::new in program order.  The two capabilities that live in   *)
(* other files of the crate (SerializerAttr's parser, ArgInfo::new) are    *)
(* modelled from their description in the specification.                   *)
(***************************************************************************)
EXTENDS Integers, Sequences, FiniteSets, TLC

\* ------------------------------------------------------------------ bounds
MaxAttrs    == 2   \* longest attribute list
MaxArgs     == 2   \* most typed parameters of a signature

\* --------------------------------------------------------------- data types
JSON  == "JSON"
Borsh == "Borsh"

Regular     == "Regular"
CallbackArg == "CallbackArg"

None    == [tag |-> "None"]
Some(x) == [tag |-> "Some", val |-> x]

Ok(v)  == [tag |-> "Ok", val |-> v]
Err(e) == [tag |-> "Err", err |-> e]

\* syn::Error: a message and the span it is tied to
Error(span, msg) == [span |-> span, msg |-> msg]

Attr(path, tokens) == [path |-> path, tokens |-> tokens]

\* The attributes a declaration may carry: the two directives (with the
\* payloads the parser accepts and one it rejects) and two foreign attributes.
Attributes ==
    { Attr("init", ""),
      Attr("result_serializer", "(json)"),
      Attr("result_serializer", "(borsh)"),
      Attr("result_serializer", "(xml)"),
      Attr("doc", "= \"x\""),
      Attr("inline", "") }

\* FnArg::Receiver
Receivers == { [kind |-> "Receiver", self |-> "&mut self"] }

\* FnArg::Typed.  A typed parameter is described by what the argument
\* analysis will find in it: its pattern, whether it is well formed, and the
\* classification and serializer its own attributes ask for.
PatType(pat, wf, bty, sty) ==
    [kind |-> "Typed", pat |-> pat, wellformed |-> wf, bindgen |-> bty, serializer |-> sty]

TypedParams ==
    { PatType("a", TRUE, Regular, JSON),
      PatType("b", TRUE, Regular, Borsh),
      PatType("c", TRUE, CallbackArg, JSON),
      PatType("d", TRUE, CallbackArg, Borsh),
      PatType("m", FALSE, Regular, JSON) }

SeqsUpTo(S, n) == UNION { [1..k -> S] : k \in 0..n }

\* The parameter lists the front end produces: an optional receiver first,
\* then the typed parameters.
InputLists ==
    { r \o t : r \in {<<>>} \cup { <<x>> : x \in Receivers },
               t \in SeqsUpTo(TypedParams, MaxArgs) }

Outputs == { "-> Self" }

Signatures ==
    [ ident : {"method"},
      asyncness : BOOLEAN,
      abi : BOOLEAN,
      generics : { <<>>, <<"T">> },
      variadic : BOOLEAN,
      inputs : InputLists,
      output : Outputs ]

\* ------------------------------------------------ external capabilities

\* syn::parse2::<SerializerAttr>(tokens): the serializer named by the
\* payload, or the parser's error located at the payload.
SerializerAttrParse(tokens) ==
    CASE tokens = "(json)"  -> Ok(JSON)
      [] tokens = "(borsh)" -> Ok(Borsh)
      [] OTHER -> Err(Error(tokens, "Unsupported serializer type."))

\* ArgInfo::new(pat_typed): the ArgInfo of a typed parameter, or the
\* analyzer's error located at the parameter.
ArgInfoNew(p) ==
    IF p.wellformed
    THEN Ok([ident |-> p.pat, bindgen_ty |-> p.bindgen, serializer_ty |-> p.serializer])
    ELSE Err(Error(p.pat, "Unsupported argument."))

\* ------------------------------------------------------ AttrSigInfo::new

SigSpan == "original_sig"
CallSite == "call_site"

MsgAsync    == "Contract API is not allowed to be async."
MsgAbi      == "Contract API is not allowed to have binary interface."
MsgGenerics == "Contract API is not allowed to have generics."
MsgVariadic == "Contract API is not allowed to have variadic arguments."
MsgFormat   == "Input arguments should be all of the same serialization type."

StructuralGate_NoVariadic(sig) ==
    IF sig.asyncness THEN Some(Error(SigSpan, MsgAsync))
    ELSE IF sig.abi THEN Some(Error(SigSpan, MsgAbi))
    ELSE IF sig.generics # <<>> THEN Some(Error(SigSpan, MsgGenerics))
    ELSE None

StructuralGate_AbiFirst(sig) ==
    IF sig.abi THEN Some(Error(SigSpan, MsgAbi))
    ELSE IF sig.asyncness THEN Some(Error(SigSpan, MsgAsync))
    ELSE IF sig.generics # <<>> THEN Some(Error(SigSpan, MsgGenerics))
    ELSE IF sig.variadic THEN Some(Error(SigSpan, MsgVariadic))
    ELSE None

\* The four early returns on the shape of the signature.
StructuralGate(sig) ==
    IF sig.asyncness THEN Some(Error(SigSpan, MsgAsync))
    ELSE IF sig.abi THEN Some(Error(SigSpan, MsgAbi))
    ELSE IF sig.generics # <<>> THEN Some(Error(SigSpan, MsgGenerics))
    ELSE IF sig.variadic THEN Some(Error(SigSpan, MsgVariadic))
    ELSE None

\* The local variables of the function at their declarations.  parse_calls
\* and analyze_calls record the calls made to the two external capabilities,
\* in order; err is the error of a `?` that returned early.
InitLocals(sig) ==
    [ ident |-> sig.ident,
      non_bindgen_attrs |-> <<>>,
      args |-> <<>>,
      is_init |-> FALSE,
      result_serializer |-> JSON,
      receiver |-> None,
      returns |-> sig.output,
      parse_calls |-> <<>>,
      analyze_calls |-> <<>>,
      err |-> None ]

AttrArm_KeepInit(loc, attr) ==
    CASE attr.path = "init" ->
            [loc EXCEPT !.is_init = TRUE,
                        !.non_bindgen_attrs = Append(@, attr)]
      [] attr.path = "result_serializer" ->
            LET serializer == SerializerAttrParse(attr.tokens)
                called == [loc EXCEPT !.parse_calls = Append(@, attr.tokens)]
            IN  IF serializer.tag = "Err"
                THEN [called EXCEPT !.err = Some(serializer.err)]
                ELSE [called EXCEPT !.result_serializer = serializer.val]
      [] OTHER ->
            [loc EXCEPT !.non_bindgen_attrs = Append(@, attr)]

AttrArm_ToggleInit(loc, attr) ==
    CASE attr.path = "init" ->
            [loc EXCEPT !.is_init = ~@]
      [] attr.path = "result_serializer" ->
            LET serializer == SerializerAttrParse(attr.tokens)
                called == [loc EXCEPT !.parse_calls = Append(@, attr.tokens)]
            IN  IF serializer.tag = "Err"
                THEN [called EXCEPT !.err = Some(serializer.err)]
                ELSE [called EXCEPT !.result_serializer = serializer.val]
      [] OTHER ->
            [loc EXCEPT !.non_bindgen_attrs = Append(@, attr)]

AttrArm_SwallowError(loc, attr) ==
    CASE attr.path = "init" ->
            [loc EXCEPT !.is_init = TRUE]
      [] attr.path = "result_serializer" ->
            LET serializer == SerializerAttrParse(attr.tokens)
                called == [loc EXCEPT !.parse_calls = Append(@, attr.tokens)]
            IN  IF serializer.tag = "Err"
                THEN called
                ELSE [called EXCEPT !.result_serializer = serializer.val]
      [] OTHER ->
            [loc EXCEPT !.non_bindgen_attrs = Append(@, attr)]

AttrArm_FirstWins(loc, attr) ==
    CASE attr.path = "init" ->
            [loc EXCEPT !.is_init = TRUE]
      [] attr.path = "result_serializer" ->
            LET serializer == SerializerAttrParse(attr.tokens)
                called == [loc EXCEPT !.parse_calls = Append(@, attr.tokens)]
            IN  IF serializer.tag = "Err"
                THEN [called EXCEPT !.err = Some(serializer.err)]
                ELSE IF Len(loc.parse_calls) = 0
                     THEN [called EXCEPT !.result_serializer = serializer.val]
                     ELSE called
      [] OTHER ->
            [loc EXCEPT !.non_bindgen_attrs = Append(@, attr)]

\* One iteration of `for attr in &original_attrs`: the match on the path.
AttrArm(loc, attr) ==
    CASE attr.path = "init" ->
            [loc EXCEPT !.is_init = TRUE]
      [] attr.path = "result_serializer" ->
            LET serializer == SerializerAttrParse(attr.tokens)
                called == [loc EXCEPT !.parse_calls = Append(@, attr.tokens)]
            IN  IF serializer.tag = "Err"
                THEN [called EXCEPT !.err = Some(serializer.err)]
                ELSE [called EXCEPT !.result_serializer = serializer.val]
      [] OTHER ->
            [loc EXCEPT !.non_bindgen_attrs = Append(@, attr)]

FnArgArm_Prepend(loc, fn_arg) ==
    IF fn_arg.kind = "Receiver"
    THEN [loc EXCEPT !.receiver = Some(fn_arg)]
    ELSE LET info == ArgInfoNew(fn_arg)
             called == [loc EXCEPT !.analyze_calls = Append(@, fn_arg.pat)]
         IN  IF info.tag = "Err"
             THEN [called EXCEPT !.err = Some(info.err)]
             ELSE [called EXCEPT !.args = <<info.val>> \o @]

FnArgArm_SkipMalformed(loc, fn_arg) ==
    IF fn_arg.kind = "Receiver"
    THEN [loc EXCEPT !.receiver = Some(fn_arg)]
    ELSE LET info == ArgInfoNew(fn_arg)
             called == [loc EXCEPT !.analyze_calls = Append(@, fn_arg.pat)]
         IN  IF info.tag = "Err"
             THEN called
             ELSE [called EXCEPT !.args = Append(@, info.val)]

\* One iteration of `for fn_arg in &original_sig.inputs`.
FnArgArm(loc, fn_arg) ==
    IF fn_arg.kind = "Receiver"
    THEN [loc EXCEPT !.receiver = Some(fn_arg)]
    ELSE LET info == ArgInfoNew(fn_arg)
             called == [loc EXCEPT !.analyze_calls = Append(@, fn_arg.pat)]
         IN  IF info.tag = "Err"
             THEN [called EXCEPT !.err = Some(info.err)]
             ELSE [called EXCEPT !.args = Append(@, info.val)]

\* `let mut result = Self { .. }` with the provisional input serializer.
BuildResult(loc, sig) ==
    [ ident |-> loc.ident,
      non_bindgen_attrs |-> loc.non_bindgen_attrs,
      args |-> loc.args,
      input_serializer |-> JSON,
      is_init |-> loc.is_init,
      result_serializer |-> loc.result_serializer,
      receiver |-> loc.receiver,
      returns |-> loc.returns,
      original_sig |-> sig ]

IsRegular(arg) == arg.bindgen_ty = Regular

input_args_Unfiltered(self) == self.args

\* AttrSigInfo::input_args: the args that correspond to env::input().
input_args(self) == SelectSeq(self.args, IsRegular)

All(s, P(_)) == \A k \in 1..Len(s) : P(s[k])

IsJSON(arg)  == arg.serializer_ty = JSON
IsBorsh(arg) == arg.serializer_ty = Borsh

Reconcile_AnyBorsh(result) ==
    IF All(input_args(result), IsJSON)
    THEN Ok([result EXCEPT !.input_serializer = JSON])
    ELSE IF \E k \in 1..Len(input_args(result)) : IsBorsh(input_args(result)[k])
    THEN Ok([result EXCEPT !.input_serializer = Borsh])
    ELSE Err(Error(CallSite, MsgFormat))

\* The reconciliation of the input serializer and the return of the function.
Reconcile(result) ==
    IF All(input_args(result), IsJSON)
    THEN Ok([result EXCEPT !.input_serializer = JSON])
    ELSE IF All(input_args(result), IsBorsh)
    THEN Ok([result EXCEPT !.input_serializer = Borsh])
    ELSE Err(Error(CallSite, MsgFormat))

\* The function as a whole, as the composition of its steps: used to compare
\* the outcome on the declaration at hand with the outcome on a neighbour.
RECURSIVE ForAttrs(_, _, _)
ForAttrs(loc, attrs, k) ==
    IF k > Len(attrs) THEN loc
    ELSE LET r == AttrArm(loc, attrs[k])
         IN  IF r.err # None THEN r ELSE ForAttrs(r, attrs, k + 1)

RECURSIVE ForInputs(_, _, _)
ForInputs(loc, inputs, k) ==
    IF k > Len(inputs) THEN loc
    ELSE LET r == FnArgArm(loc, inputs[k])
         IN  IF r.err # None THEN r ELSE ForInputs(r, inputs, k + 1)

New(attrs, sig) ==
    LET gate == StructuralGate(sig) IN
    IF gate # None THEN Err(gate.val)
    ELSE LET a == ForAttrs(InitLocals(sig), attrs, 1) IN
         IF a.err # None THEN Err(a.err.val)
         ELSE LET b == ForInputs(a, sig.inputs, 1) IN
              IF b.err # None THEN Err(b.err.val)
              ELSE Reconcile(BuildResult(b, sig))

\* ------------------------------------------------------------ state machine
VARIABLES
    original_attrs,  \* the attribute list handed to new()
    original_sig,    \* the signature handed to new()
    pc,              \* position in the body of new()
    i,               \* next attribute of the first loop
    j,               \* next parameter of the second loop
    locals,          \* the local variables (see InitLocals)
    result,          \* `result`, once built
    ret              \* what new() returned, once it has

vars == <<original_attrs, original_sig, pc, i, j, locals, result, ret>>

Init ==
    /\ original_attrs \in SeqsUpTo(Attributes, MaxAttrs)
    /\ original_sig \in Signatures
    /\ pc = "gate"
    /\ i = 1
    /\ j = 1
    /\ locals = InitLocals(original_sig)
    /\ result = None
    /\ ret = None

\* lines 34-57
CheckSignature ==
    /\ pc = "gate"
    /\ LET gate == StructuralGate(original_sig) IN
       IF gate # None
       THEN /\ ret' = Err(gate.val)
            /\ pc' = "done"
       ELSE /\ ret' = ret
            /\ pc' = "attrs"
    /\ UNCHANGED <<original_attrs, original_sig, i, j, locals, result>>

\* lines 65-77, one iteration
AttrLoop ==
    /\ pc = "attrs"
    /\ i <= Len(original_attrs)
    /\ LET r == AttrArm(locals, original_attrs[i]) IN
       /\ locals' = r
       /\ IF r.err # None
          THEN /\ ret' = Err(r.err.val)
               /\ pc' = "done"
               /\ i' = i
          ELSE /\ ret' = ret
               /\ pc' = pc
               /\ i' = i + 1
    /\ UNCHANGED <<original_attrs, original_sig, j, result>>

\* the first loop is exhausted
AttrLoopEnd ==
    /\ pc = "attrs"
    /\ i > Len(original_attrs)
    /\ pc' = "inputs"
    /\ UNCHANGED <<original_attrs, original_sig, i, j, locals, result, ret>>

\* lines 81-88, one iteration
InputLoop ==
    /\ pc = "inputs"
    /\ j <= Len(original_sig.inputs)
    /\ LET r == FnArgArm(locals, original_sig.inputs[j]) IN
       /\ locals' = r
       /\ IF r.err # None
          THEN /\ ret' = Err(r.err.val)
               /\ pc' = "done"
               /\ j' = j
          ELSE /\ ret' = ret
               /\ pc' = pc
               /\ j' = j + 1
    /\ UNCHANGED <<original_attrs, original_sig, i, result>>

\* lines 90-100
Build ==
    /\ pc = "inputs"
    /\ j > Len(original_sig.inputs)
    /\ result' = Some(BuildResult(locals, original_sig))
    /\ pc' = "reconcile"
    /\ UNCHANGED <<original_attrs, original_sig, i, j, locals, ret>>

\* lines 102-114
ReconcileAndReturn ==
    /\ pc = "reconcile"
    /\ LET r == Reconcile(result.val) IN
       /\ ret' = r
       /\ result' = IF r.tag = "Ok" THEN Some(r.val) ELSE result
    /\ pc' = "done"
    /\ UNCHANGED <<original_attrs, original_sig, i, j, locals>>

Next ==
    \/ CheckSignature
    \/ AttrLoop
    \/ AttrLoopEnd
    \/ InputLoop
    \/ Build
    \/ ReconcileAndReturn

Spec == Init /\ [][Next]_vars

\* ------------------------------------------------- vocabulary of the claims

Returned == pc = "done"
Succeeded == Returned /\ ret.tag = "Ok"
Failed == Returned /\ ret.tag = "Err"

StructuralMsgs == {MsgAsync, MsgAbi, MsgGenerics, MsgVariadic}

StructurallyInvalid ==
    \/ original_sig.asyncness
    \/ original_sig.abi
    \/ Len(original_sig.generics) > 0
    \/ original_sig.variadic

IsTyped(fn_arg) == fn_arg.kind = "Typed"
IsReceiver(fn_arg) == fn_arg.kind = "Receiver"
IsDirective(attr) == attr.path \in {"init", "result_serializer"}
NotDirective(attr) == ~IsDirective(attr)
IsInitAttr(attr) == attr.path = "init"
IsResultSerializer(attr) == attr.path = "result_serializer"
RejectedDirective(attr) ==
    IsResultSerializer(attr) /\ SerializerAttrParse(attr.tokens).tag = "Err"
MalformedParam(fn_arg) == IsTyped(fn_arg) /\ ArgInfoNew(fn_arg).tag = "Err"

Exists(s, P(_)) == \E k \in 1..Len(s) : P(s[k])
FirstIdx(s, P(_)) == CHOOSE k \in 1..Len(s) : P(s[k]) /\ \A m \in 1..(k - 1) : ~P(s[m])

TypedParamsOf == SelectSeq(original_sig.inputs, IsTyped)
ResultSerializerAttrs == SelectSeq(original_attrs, IsResultSerializer)

AttrsParse == ~Exists(original_attrs, RejectedDirective)
ParamsParse == ~Exists(original_sig.inputs, MalformedParam)

\* the serializer kinds found among the parameters classified Regular
RegularKinds ==
    LET infos == { ArgInfoNew(original_sig.inputs[k]) :
                     k \in { n \in 1..Len(original_sig.inputs) :
                                IsTyped(original_sig.inputs[n]) } }
    IN  { a.val.serializer_ty :
            a \in { x \in infos : x.tag = "Ok" /\ x.val.bindgen_ty = Regular } }

\* the serializer kinds found among the other (injected) parameters
InjectedKinds ==
    LET infos == { ArgInfoNew(original_sig.inputs[k]) :
                     k \in { n \in 1..Len(original_sig.inputs) :
                                IsTyped(original_sig.inputs[n]) } }
    IN  { a.val.serializer_ty :
            a \in { x \in infos : x.tag = "Ok" /\ x.val.bindgen_ty # Regular } }

FormatConflict == Error(CallSite, MsgFormat)

\* ---------------------------------------------------------------- claims

\* C1: a declaration that is async, has an ABI annotation, has a generic
\* parameter or is variadic never yields an AttrSigInfo: new() returns one of
\* the four structural errors, located at the signature, whatever the
\* attributes and the parameters are.
C1_StructuralRejection ==
    StructurallyInvalid =>
        /\ ret.tag # "Ok"
        /\ result = None
        /\ pc \in {"gate", "done"}
        /\ Returned => /\ ret.tag = "Err"
                       /\ ret.err.span = SigSpan
                       /\ ret.err.msg \in StructuralMsgs

C1_Witness ==
    /\ Failed
    /\ original_sig.variadic
    /\ ~original_sig.asyncness /\ ~original_sig.abi /\ Len(original_sig.generics) = 0
    /\ AttrsParse /\ ParamsParse
    /\ Len(original_attrs) > 0 /\ Len(TypedParamsOf) > 0
    /\ ret.err.msg = MsgVariadic

\* C2: when the gate passes and every attribute and parameter parses, the
\* input serializer is decided by the Regular arguments alone: all JSON (or
\* no Regular argument at all) gives success with JSON, at least one and all
\* Borsh gives success with Borsh, whatever the kinds of the other arguments.
C2_InputSerializer ==
    (Returned /\ ~StructurallyInvalid /\ AttrsParse /\ ParamsParse) =>
        /\ RegularKinds \subseteq {JSON} =>
              ret.tag = "Ok" /\ ret.val.input_serializer = JSON
        /\ RegularKinds = {Borsh} =>
              ret.tag = "Ok" /\ ret.val.input_serializer = Borsh

C2_Witness ==
    /\ Succeeded
    /\ RegularKinds = {Borsh}
    /\ InjectedKinds = {JSON}
    /\ ret.val.input_serializer = Borsh

C4_PassthroughAttrs ==
    Succeeded => ret.val.non_bindgen_attrs = SelectSeq(original_attrs, NotDirective)

C4_Witness ==
    /\ Succeeded
    /\ Exists(original_attrs, IsDirective)
    /\ Exists(original_attrs, NotDirective)
    /\ Len(ret.val.non_bindgen_attrs) = 1
    /\ IsInitAttr(original_attrs[1])

\* C5: on success args holds the ArgInfo of each typed parameter, in
\* declaration order, one per typed parameter; the receiver is not in args
\* but in the receiver field, which is absent exactly when the signature has
\* no self parameter.
C5_ArgsAndReceiver ==
    Succeeded =>
        /\ Len(ret.val.args) = Len(TypedParamsOf)
        /\ \A k \in 1..Len(TypedParamsOf) :
              ret.val.args[k] = ArgInfoNew(TypedParamsOf[k]).val
        /\ (ret.val.receiver = None) <=> ~Exists(original_sig.inputs, IsReceiver)
        /\ Exists(original_sig.inputs, IsReceiver) =>
              ret.val.receiver =
                  Some(original_sig.inputs[FirstIdx(original_sig.inputs, IsReceiver)])

C5_Witness ==
    /\ Succeeded
    /\ Exists(original_sig.inputs, IsReceiver)
    /\ Len(TypedParamsOf) = 2
    /\ TypedParamsOf[1] # TypedParamsOf[2]
    /\ Len(ret.val.args) = 2
    /\ ret.val.receiver # None

Insert(s, k, x) == SubSeq(s, 1, k - 1) \o <<x>> \o SubSeq(s, k, Len(s))
Remove(s, k) == SubSeq(s, 1, k - 1) \o SubSeq(s, k + 1, Len(s))

\* two outcomes that differ at most in is_init
SameButIsInit(r1, r2) ==
    IF r1.tag = "Ok"
    THEN r2.tag = "Ok" /\ [r2.val EXCEPT !.is_init = r1.val.is_init] = r1.val
    ELSE r2 = r1

\* C6: on success is_init is true exactly when the attribute list has an
\* `init` attribute; and inserting an `init` attribute anywhere, or removing
\* one, changes neither success/failure nor any field other than is_init.
C6_IsInit ==
    Returned =>
        /\ ret.tag = "Ok" => (ret.val.is_init <=> Exists(original_attrs, IsInitAttr))
        /\ \A k \in 1..(Len(original_attrs) + 1) :
              SameButIsInit(ret, New(Insert(original_attrs, k, Attr("init", "")),
                                     original_sig))
        /\ \A k \in 1..Len(original_attrs) :
              IsInitAttr(original_attrs[k]) =>
                  SameButIsInit(ret, New(Remove(original_attrs, k), original_sig))

C6_Witness ==
    /\ Succeeded
    /\ ret.val.is_init
    /\ Len(original_attrs) = 2
    /\ IsInitAttr(original_attrs[1])
    /\ IsInitAttr(original_attrs[2])
    /\ Len(ret.val.args) > 0

AnalyzedUpToFirstMalformed ==
    LET f == FirstIdx(original_sig.inputs, MalformedParam)
        upto == SelectSeq(SubSeq(original_sig.inputs, 1, f), IsTyped)
    IN  [k \in 1..Len(upto) |-> upto[k].pat]

\* C8: when the argument analysis fails on a typed parameter (and nothing
\* before it fails), new() returns the error of the first such parameter
\* unmodified; the parameters after it are never analyzed, no result is built
\* and serializer reconciliation is never reached.
C8_MalformedParam ==
    (~StructurallyInvalid /\ AttrsParse /\ Exists(original_sig.inputs, MalformedParam)) =>
        /\ pc # "reconcile"
        /\ result = None
        /\ ret.tag # "Ok"
        /\ Len(locals.analyze_calls) <= Len(AnalyzedUpToFirstMalformed)
        /\ Returned =>
              /\ ret = ArgInfoNew(original_sig.inputs[
                           FirstIdx(original_sig.inputs, MalformedParam)])
              /\ locals.analyze_calls = AnalyzedUpToFirstMalformed

C8_Witness ==
    /\ Failed
    /\ ~StructurallyInvalid /\ AttrsParse
    /\ Len(TypedParamsOf) = 2
    /\ MalformedParam(TypedParamsOf[1])
    /\ TypedParamsOf[2] # TypedParamsOf[1]
    /\ locals.analyze_calls = <<TypedParamsOf[1].pat>>
    /\ ret.err.span = TypedParamsOf[1].pat

\* the payloads of the `result_serializer` attributes up to and including the
\* first rejected one
ParsedUpToFirstRejected ==
    LET f == FirstIdx(original_attrs, RejectedDirective)
        upto == SelectSeq(SubSeq(original_attrs, 1, f), IsResultSerializer)
    IN  [k \in 1..Len(upto) |-> upto[k].tokens]

\* the outcome the fixed order of the failure conditions prescribes
FirstFailure ==
    IF original_sig.asyncness THEN Some(Error(SigSpan, MsgAsync))
    ELSE IF original_sig.abi THEN Some(Error(SigSpan, MsgAbi))
    ELSE IF Len(original_sig.generics) > 0 THEN Some(Error(SigSpan, MsgGenerics))
    ELSE IF original_sig.variadic THEN Some(Error(SigSpan, MsgVariadic))
    ELSE IF Exists(original_attrs, RejectedDirective)
         THEN Some(SerializerAttrParse(
                  original_attrs[FirstIdx(original_attrs, RejectedDirective)].tokens).err)
    ELSE IF Exists(original_sig.inputs, MalformedParam)
         THEN Some(ArgInfoNew(
                  original_sig.inputs[FirstIdx(original_sig.inputs, MalformedParam)]).err)
    ELSE IF RegularKinds = {JSON, Borsh} THEN Some(FormatConflict)
    ELSE None

\* C9: the error returned is the first in the order async, ABI, generics,
\* variadic, first rejected `result_serializer` payload, first malformed typed
\* parameter, format conflict; a structurally invalid declaration never
\* reaches the serializer-attribute parser or the argument analyzer, and a
\* rejected directive is reported before any parameter is analyzed.  "First"
\* is read off the calls made: parsing stops at the first rejected payload,
\* analysis at the first malformed parameter.
C9_FailureOrder ==
    /\ Returned => IF FirstFailure = None
                   THEN ret.tag = "Ok"
                   ELSE ret = Err(FirstFailure.val)
    /\ StructurallyInvalid =>
          locals.parse_calls = <<>> /\ locals.analyze_calls = <<>>
    /\ (~StructurallyInvalid /\ Exists(original_attrs, RejectedDirective)) =>
          /\ locals.analyze_calls = <<>>
          /\ Len(locals.parse_calls) <= Len(ParsedUpToFirstRejected)
          /\ Returned => locals.parse_calls = ParsedUpToFirstRejected
    /\ (Returned /\ ~StructurallyInvalid /\ AttrsParse
          /\ Exists(original_sig.inputs, MalformedParam)) =>
          locals.analyze_calls = AnalyzedUpToFirstMalformed

C9_Witness ==
    /\ Failed
    /\ original_sig.asyncness /\ original_sig.abi
    /\ Exists(original_attrs, RejectedDirective)
    /\ Exists(original_sig.inputs, MalformedParam)
    /\ ret.err.msg = MsgAsync

\* C10: with several `result_serializer` attributes that all parse, the
\* result_serializer of the AttrSigInfo is the format of the last of them;
\* if any of them is rejected new() fails, even when a later one parses.
C10_LastDirectiveWins ==
    (Returned /\ ~StructurallyInvalid /\ Len(ResultSerializerAttrs) >= 2) =>
        /\ (AttrsParse /\ ret.tag = "Ok") =>
              Ok(ret.val.result_serializer) =
                  SerializerAttrParse(
                      ResultSerializerAttrs[Len(ResultSerializerAttrs)].tokens)
        /\ ~AttrsParse =>
              /\ ret.tag = "Err"
              /\ ret.err.msg = "Unsupported serializer type."

C10_Witness ==
    /\ Succeeded
    /\ Len(ResultSerializerAttrs) = 2
    /\ ResultSerializerAttrs[1].tokens = "(borsh)"
    /\ ResultSerializerAttrs[2].tokens = "(json)"
    /\ ret.val.result_serializer = JSON
====
